---------------------------- MODULE Spec2Model ----------------------------
(***************************************************************************)
(* A model of protokit's descriptor-tree assembler: the batch driver       *)
(* ParseCodeGenRequestAllFiles, the per-file assembler parseFile, the      *)
(* entity builders, the naming helper newCommon and the import resolver    *)
(* parseAllImports.                                                        *)
(*                                                                         *)
(* Go strings are TLA+ strings (Len, \o and SubSeq act on them), Go        *)
(* pointers are records naming the file and the position of the entity in  *)
(* that file, a nil pointer is Nil.                                        *)
(***************************************************************************)
EXTENDS Integers, Sequences, FiniteSets, TLC

Nil == [nil |-> TRUE]

(***************************************************************************)
(* Bounds of the model.                                                    *)
(***************************************************************************)
\* deepest nesting of messages generated inside a top-level message
MaxNest == 2
\* number of sibling messages generated at each nesting level
MaxSiblings == 2

(***************************************************************************)
(* The strings and fmt functions the code uses.                            *)
(***************************************************************************)
\* strings.HasPrefix
HasPrefix(s, prefix) ==
    /\ Len(s) >= Len(prefix)
    /\ SubSeq(s, 1, Len(prefix)) = prefix

\* strings.Index: the 1-based place of the first occurrence, 0 when absent
Index(s, substr) ==
    LET hits == {i \in 1..(Len(s) - Len(substr) + 1) :
                    SubSeq(s, i, i + Len(substr) - 1) = substr}
    IN IF hits = {} THEN 0 ELSE CHOOSE i \in hits : \A j \in hits : i <= j

\* strings.Contains (true of every s when substr is empty)
Contains(s, substr) == Index(s, substr) # 0

\* strings.Split, for a non-empty separator
RECURSIVE Split(_, _)
Split(s, sep) ==
    LET i == Index(s, sep)
    IN IF i = 0
       THEN <<s>>
       ELSE <<SubSeq(s, 1, i - 1)>> \o Split(SubSeq(s, i + Len(sep), Len(s)), sep)

\* the %d verb of fmt.Sprintf, and strconv.Itoa
RECURSIVE Itoa(_)
Itoa(n) ==
    IF n < 10
    THEN SubSeq("0123456789", n + 1, n + 1)
    ELSE Itoa(n \div 10) \o SubSeq("0123456789", (n % 10) + 1, (n % 10) + 1)

\* fmt.Sprintf("%s.%s", a, b)
SprintfSS(a, b) == a \o "." \o b

\* fmt.Sprintf("%d.%d", tag, i)
SprintfDD(tag, i) == Itoa(tag) \o "." \o Itoa(i)

\* fmt.Sprintf("%s.%d.%d", prefix, tag, i)
SprintfSDD(prefix, tag, i) == prefix \o "." \o Itoa(tag) \o "." \o Itoa(i)

\* the order of Go's < on strings, for the characters file names are made of
Alphabet == "./0123456789ABCDEFGHIJKLMNOPQRSTUVWXYZ_abcdefghijklmnopqrstuvwxyz"

RECURSIVE StrLess(_, _)
StrLess(a, b) ==
    IF Len(b) = 0 THEN FALSE
    ELSE IF Len(a) = 0 THEN TRUE
    ELSE LET x == Index(Alphabet, SubSeq(a, 1, 1))
             y == Index(Alphabet, SubSeq(b, 1, 1))
         IN IF x # y THEN x < y
            ELSE StrLess(SubSeq(a, 2, Len(a)), SubSeq(b, 2, Len(b)))

(***************************************************************************)
(* The request: descriptorpb messages as records.  A repeated field is a   *)
(* sequence, an unset message field (Options) is Nil.                      *)
(***************************************************************************)
\* descriptorpb.FieldDescriptorProto (extendee is "" for a plain field)
FieldProto(name, extendee) ==
    [name |-> name, extendee |-> extendee, options |-> Nil]

\* descriptorpb.EnumDescriptorProto with its EnumValueDescriptorProtos
EnumProto(name, values) ==
    [name |-> name,
     value |-> [n \in 1..Len(values) |-> [name |-> values[n], options |-> Nil]],
     options |-> Nil]

\* descriptorpb.DescriptorProto
MessageProto(name, fields, nested, enums, exts, options) ==
    [name |-> name, field |-> fields, nested_type |-> nested,
     enum_type |-> enums, extension |-> exts, options |-> options]

\* descriptorpb.MethodDescriptorProto
MethodProto(name, input, output) ==
    [name |-> name, input_type |-> input, output_type |-> output, options |-> Nil]

\* descriptorpb.ServiceDescriptorProto
ServiceProto(name, methods) == [name |-> name, method |-> methods, options |-> Nil]

\* descriptorpb.MessageOptions
MessageOptions(mapEntry) ==
    [type |-> "google.protobuf.MessageOptions", map_entry |-> mapEntry, ext |-> <<>>]

\* MessageOptions.GetMapEntry, which is false on a nil receiver
GetMapEntry(options) == IF options = Nil THEN FALSE ELSE options.map_entry

\* the name of a type as the compiler writes it into type_name, extendee,
\* input_type and output_type: fully qualified, with a leading dot
Qual(pkg, name) == IF pkg = "" THEN "." \o name ELSE "." \o pkg \o "." \o name

\* the nested_type of a generated message: MaxSiblings messages per level,
\* depth levels deep, each with a field and an enum of its own
RECURSIVE Nest(_)
Nest(depth) ==
    IF depth = 0 THEN <<>>
    ELSE [n \in 1..MaxSiblings |->
            MessageProto("N" \o Itoa(n - 1),
                         <<FieldProto("f", "")>>,
                         Nest(depth - 1),
                         <<EnumProto("E", <<"V">>)>>,
                         <<>>,
                         Nil)]

\* the union of a sequence of sets
RECURSIVE UnionOver(_)
UnionOver(sets) ==
    IF Len(sets) = 0 THEN {} ELSE sets[1] \cup UnionOver(Tail(sets))

\* the location paths the compiler records for the enums at prefix + tag
EnumLocations(prefix, tag, enums) ==
    UnionOver([n \in 1..Len(enums) |->
        {prefix \o <<tag, n - 1>>}
        \cup {prefix \o <<tag, n - 1, 2, v - 1>> : v \in 1..Len(enums[n].value)}])

\* the location paths the compiler records for the messages at prefix + tag:
\* field 2, nested_type 3, enum_type 4 and extension 6 of DescriptorProto
RECURSIVE MessageLocations(_, _, _)
MessageLocations(prefix, tag, msgs) ==
    UnionOver([n \in 1..Len(msgs) |->
        LET at == prefix \o <<tag, n - 1>>
        IN {at}
           \cup {at \o <<2, k - 1>> : k \in 1..Len(msgs[n].field)}
           \cup MessageLocations(at, 3, msgs[n].nested_type)
           \cup EnumLocations(at, 4, msgs[n].enum_type)
           \cup {at \o <<6, k - 1>> : k \in 1..Len(msgs[n].extension)}])

\* the location paths of a file: package 2, message_type 4, enum_type 5,
\* service 6 (method 2), extension 7 and syntax 12 of FileDescriptorProto
FileLocations(messages, enums, exts, services) ==
    {<<2>>, <<12>>}
    \cup MessageLocations(<<>>, 4, messages)
    \cup EnumLocations(<<>>, 5, enums)
    \cup UnionOver([n \in 1..Len(services) |->
            {<<6, n - 1>>}
            \cup {<<6, n - 1, 2, k - 1>> : k \in 1..Len(services[n].method)}])
    \cup {<<7, k - 1>> : k \in 1..Len(exts)}

\* descriptorpb.FileDescriptorProto.  source_code_info holds one Location per
\* authored comment; the authored text of the comment at a path is modelled
\* by the path itself, so that no two comments of a file read the same.
\* Only entities at most docDepth levels deep carry an authored comment.
FileProto(name, pkg, deps, publicDeps, messages, enums, exts, services, docDepth) ==
    [name |-> name, package |-> pkg,
     dependency |-> deps, public_dependency |-> publicDeps,
     message_type |-> messages, enum_type |-> enums,
     extension |-> exts, service |-> services,
     options |-> Nil,
     source_code_info |->
        {[path |-> l, leading_comments |-> l] :
            l \in {q \in FileLocations(messages, enums, exts, services) :
                      Len(q) <= 2 * docDepth}}]

\* pluginpb.CodeGeneratorRequest
Request(files, toGenerate) == [proto_file |-> files, file_to_generate |-> toGenerate]

(***************************************************************************)
(* The files the requests are made of.                                     *)
(***************************************************************************)
\* y.proto: a library with an enum, a map-entry message, nested messages,
\* and two extensions of Base of the same name, one declared at file level
\* and one declared inside Point
LibFile(pkg, deps, depth) ==
    FileProto("y.proto", pkg, deps, <<>>,
        <<MessageProto("MapEntry",
                       <<FieldProto("key", ""), FieldProto("value", "")>>,
                       <<>>, <<>>, <<>>, MessageOptions(TRUE)),
          MessageProto("Point",
                       <<FieldProto("x", ""), FieldProto("y", "")>>,
                       Nest(depth),
                       <<EnumProto("Kind", <<"K0", "K1">>)>>,
                       <<FieldProto("ext", Qual(pkg, "Base"))>>
                         \o (IF depth > 0
                             THEN <<FieldProto("tag", Qual(pkg, "Point.N0"))>>
                             ELSE <<>>),
                       Nil),
          MessageProto("Base", <<>>, <<>>, <<>>, <<>>, MessageOptions(FALSE))>>,
        <<EnumProto("Color", <<"RED", "BLUE">>)>>,
        <<FieldProto("ext", Qual(pkg, "Base"))>>,
        <<>>,
        MaxNest + 3)

\* x.proto: a client of y.proto with a service whose methods take and return
\* a top-level message of its own, a nested message of its own and a
\* message of y.proto, and with an extension of y.proto's Base
ClientFile(pkg, libPkg, deps, publicDeps) ==
    FileProto("x.proto", pkg, deps, publicDeps,
        <<MessageProto("Req", <<FieldProto("id", "")>>,
                       <<MessageProto("Item", <<FieldProto("n", "")>>,
                                      <<>>, <<>>, <<>>, Nil)>>,
                       <<>>, <<>>, Nil),
          MessageProto("Resp", <<>>, <<>>, <<>>, <<>>, Nil)>>,
        <<EnumProto("Mode", <<"ON">>)>>,
        <<FieldProto("xext", Qual(libPkg, "Base"))>>,
        <<ServiceProto("Svc",
                       <<MethodProto("Get", Qual(pkg, "Req"), Qual(libPkg, "Point")),
                         MethodProto("List", Qual(pkg, "Req.Item"), Qual(pkg, "Resp"))>>),
          ServiceProto("Admin",
                       <<MethodProto("Ping", Qual(pkg, "Resp"), Qual(pkg, "Resp"))>>)>>,
        2)

\* z.proto: a file y.proto may depend on
BaseFile(pkg) ==
    FileProto("z.proto", pkg, <<>>, <<>>,
        <<MessageProto("Zed", <<>>, <<>>, <<>>, <<>>, Nil)>>,
        <<EnumProto("ZKind", <<"Z0">>)>>,
        <<>>, <<>>, 0)

(***************************************************************************)
(* The state.                                                              *)
(***************************************************************************)
VARIABLES
    req,          \* the CodeGeneratorRequest handed to the batch driver
    pc,           \* the driver's position in ParseCodeGenRequestAllFiles
    registry,     \* protoregistry.GlobalTypes: the registered extension types
    allFileDesc,  \* file name -> protoreflect.FileDescriptor
    allFilesMap,  \* file name -> PKFileDescriptor (the files are the heap)
    allFiles,     \* the slice of *PKFileDescriptor the driver returns
    result,       \* what the driver returned: Nil until it returns
    call          \* a call of newCommon on its own: its arguments and result

vars == <<req, pc, registry, allFileDesc, allFilesMap, allFiles, result, call>>

(***************************************************************************)
(* Comment paths: the tag numbers of the descriptor messages.              *)
(***************************************************************************)
packageCommentPath == 2
messageCommentPath == 4
enumCommentPath == 5
serviceCommentPath == 6
extensionCommentPath == 7
syntaxCommentPath == 12

messageFieldCommentPath == 2
messageMessageCommentPath == 3
\* a nested enum looked up under the tag of a top-level one
nestedEnumUnderFileTag == enumCommentPath
messageEnumCommentPath == 4
\* a nested extension looked up under the tag of a nested enum
nestedExtensionUnderEnumTag == messageEnumCommentPath
messageExtensionCommentPath == 6

enumValueCommentPath == 2

serviceMethodCommentPath == 2

(***************************************************************************)
(* The Comment Index.                                                      *)
(***************************************************************************)
\* strings.Join(key, ".") of the Itoa of each element of a location path
RECURSIVE JoinPath(_)
JoinPath(path) ==
    IF Len(path) = 0 THEN ""
    ELSE IF Len(path) = 1 THEN Itoa(path[1])
    ELSE Itoa(path[1]) \o "." \o JoinPath(Tail(path))

\* ParseComments: the file's locations keyed by their dot-joined path
ParseComments(fd) ==
    [key \in {JoinPath(l.path) : l \in fd.source_code_info} |->
        LET loc == CHOOSE l \in fd.source_code_info : JoinPath(l.path) = key
        IN [Leading |-> loc.leading_comments]]

\* Comments.Get: the comment at exactly this path, an empty comment if none
CommentsGet(comments, path) ==
    IF path \in DOMAIN comments THEN comments[path] ELSE [Leading |-> <<>>]

(***************************************************************************)
(* Pointers.                                                               *)
(***************************************************************************)
\* a *PKFileDescriptor: the files of a batch are told apart by name
FilePtr(name) == [file |-> name]

\* a pointer to an entity of a file: the file and the entity's position, a
\* sequence of (repeated field of the descriptor message, index) steps
EntityPtr(fileName, at) == [file |-> fileName, at |-> at]

\* the position of the i-th element of a repeated field below a parent
Below(parentAt, slot, i) == Append(parentAt, <<slot, i>>)

(***************************************************************************)
(* types: the common facet and the naming helper.                          *)
(***************************************************************************)
\* PKFileDescriptor.GetName, GetPackage
FileGetName(f) == f.desc.name
FileGetPackage(f) == f.desc.package

\* newCommon as it was before the leading dot was enforced
newCommonNoDot(f, path, longName) ==
    LET fn == IF ~HasPrefix(longName, ".")
              THEN SprintfSS(FileGetPackage(f), longName)
              ELSE longName
    IN [file |-> FilePtr(FileGetName(f)), path |-> path,
        LongName |-> longName, FullName |-> fn, OptionExtensions |-> Nil]

\* newCommon that rewrites the long name it is given
newCommonTrim(f, path, longName) ==
    LET ln == IF HasPrefix(longName, ".")
              THEN SubSeq(longName, 2, Len(longName)) ELSE longName
        fn0 == SprintfSS(FileGetPackage(f), ln)
        fn == IF ~HasPrefix(fn0, ".") THEN "." \o fn0 ELSE fn0
    IN [file |-> FilePtr(FileGetName(f)), path |-> path,
        LongName |-> ln, FullName |-> fn, OptionExtensions |-> Nil]

newCommon(f, path, longName) ==
    LET fn0 == longName
        fn1 == IF ~HasPrefix(fn0, ".")
               THEN LET fn2 == SprintfSS(FileGetPackage(f), longName)
                    IN IF ~HasPrefix(fn2, ".") THEN "." \o fn2 ELSE fn2
               ELSE fn0
    IN [file |-> FilePtr(FileGetName(f)), path |-> path,
        LongName |-> longName, FullName |-> fn1, OptionExtensions |-> Nil]

(***************************************************************************)
(* types: the Option/Extension scanner.                                    *)
(***************************************************************************)
\* getOptions without the test that the extension is set on the payload:
\* an extension that is not set reads as its default value
getOptionsNoHas(options) ==
    LET found == {xt \in registry : xt.ContainingMessage = options.type}
    IN IF found = {} THEN Nil
       ELSE [k \in {xt.FullName : xt \in found} |->
                IF k \in DOMAIN options.ext THEN options.ext[k] ELSE "default"]

\* getOptions: the extensions of the registry whose containing message is
\* the payload's type and which are set on the payload, keyed by full name;
\* nil when there is none
getOptions(options) ==
    LET found == {xt \in registry :
                    /\ xt.ContainingMessage = options.type
                    /\ xt.FullName \in DOMAIN options.ext}
    IN IF found = {} THEN Nil
       ELSE [k \in {xt.FullName : xt \in found} |-> options.ext[k]]

\* common.setOptions and PKFileDescriptor.setOptions, on the OptionExtensions
\* of the receiver: returns the new OptionExtensions
setOptions(optionExtensions, options) ==
    LET opts == getOptions(options)
    IN IF opts # Nil /\ DOMAIN opts # {}
       THEN IF optionExtensions = Nil
            THEN opts
            ELSE [k \in DOMAIN optionExtensions \cup DOMAIN opts |->
                    IF k \in DOMAIN opts THEN opts[k] ELSE optionExtensions[k]]
       ELSE optionExtensions

\* an entity after "if x.Options != nil { x.setOptions(x.Options) }"
WithOptions(entity, options) ==
    IF options # Nil
    THEN [entity EXCEPT !.common.OptionExtensions =
                            setOptions(entity.common.OptionExtensions, options)]
    ELSE entity

(***************************************************************************)
(* parser: the protoreflect descriptors of the batch.                      *)
(***************************************************************************)
\* the elements of a sequence
Range(seq) == {seq[n] : n \in 1..Len(seq)}

\* the concatenation of a sequence of sequences
RECURSIVE Flatten(_)
Flatten(seqs) == IF Len(seqs) = 0 THEN <<>> ELSE seqs[1] \o Flatten(Tail(seqs))

\* protoreflect.FullName of name declared in scope ("" is the root)
ProtoFullName(scope, name) == IF scope = "" THEN name ELSE scope \o "." \o name

\* strings.TrimPrefix(name, ".")
TrimDot(name) == IF HasPrefix(name, ".") THEN SubSeq(name, 2, Len(name)) ELSE name

\* the protoreflect.ExtensionDescriptor of an extension declared in scope
ExtensionDescriptorOf(scope, ext) ==
    [FullName |-> ProtoFullName(scope, ext.name),
     Name |-> ext.name,
     ContainingMessage |-> TrimDot(ext.extendee)]

\* the protoreflect.ServiceDescriptor of a service of a package
ServiceDescriptorOf(pkg, sd) ==
    [FullName |-> ProtoFullName(pkg, sd.name),
     Name |-> sd.name,
     Methods |-> [n \in 1..Len(sd.method) |->
                    [FullName |-> ProtoFullName(ProtoFullName(pkg, sd.name),
                                                sd.method[n].name),
                     Name |-> sd.method[n].name]]]

\* protodesc.NewFile: the protoreflect.FileDescriptor of a file
NewFile(pf) ==
    [Path |-> pf.name,
     Package |-> pf.package,
     Extensions |-> [n \in 1..Len(pf.extension) |->
                        ExtensionDescriptorOf(pf.package, pf.extension[n])],
     Services |-> [n \in 1..Len(pf.service) |->
                        ServiceDescriptorOf(pf.package, pf.service[n])]]

\* Extensions().ByName, Services().ByName, Methods().ByName: the first
\* descriptor of the list with this name, nil when there is none
ByName(list, name) ==
    LET hits == {n \in 1..Len(list) : list[n].Name = name}
    IN IF hits = {} THEN Nil
       ELSE list[CHOOSE n \in hits : \A m \in hits : n <= m]

\* the full names of the messages declared by msgs in scope, nested included
RECURSIVE MessageNames(_, _)
MessageNames(scope, msgs) ==
    Flatten([n \in 1..Len(msgs) |->
        <<ProtoFullName(scope, msgs[n].name)>>
        \o MessageNames(ProtoFullName(scope, msgs[n].name), msgs[n].nested_type)])

\* the full names the enums declare in scope: an enum value is declared in
\* the scope of its enum, not inside it
EnumNames(scope, enums) ==
    Flatten([n \in 1..Len(enums) |->
        <<ProtoFullName(scope, enums[n].name)>>
        \o [v \in 1..Len(enums[n].value) |->
                ProtoFullName(scope, enums[n].value[v].name)]])

\* the full names of the enums, enum values and extensions declared inside
\* msgs, at any depth
RECURSIVE MemberNames(_, _)
MemberNames(scope, msgs) ==
    Flatten([n \in 1..Len(msgs) |->
        LET inner == ProtoFullName(scope, msgs[n].name)
        IN EnumNames(inner, msgs[n].enum_type)
           \o [k \in 1..Len(msgs[n].extension) |->
                    ProtoFullName(inner, msgs[n].extension[k].name)]
           \o MemberNames(inner, msgs[n].nested_type)])

\* every full name a file registers with protoregistry.Files
DeclaredNames(pf) ==
    MessageNames(pf.package, pf.message_type)
    \o MemberNames(pf.package, pf.message_type)
    \o EnumNames(pf.package, pf.enum_type)
    \o [k \in 1..Len(pf.extension) |-> ProtoFullName(pf.package, pf.extension[k].name)]
    \o [k \in 1..Len(pf.service) |-> ProtoFullName(pf.package, pf.service[k].name)]

\* the files a file's type references may resolve in: itself, its
\* dependencies, and what those import publicly, to any length
RECURSIVE Visible(_, _, _)
Visible(names, files, fuel) ==
    LET more == UNION {{pf.dependency[k + 1] : k \in Range(pf.public_dependency)} :
                        pf \in {q \in Range(files) : q.name \in names}}
    IN IF fuel = 0 \/ more \subseteq names THEN names
       ELSE Visible(names \cup more, files, fuel - 1)

\* the extendees of the extensions declared inside msgs, at any depth
RECURSIVE NestedExtendees(_)
NestedExtendees(msgs) ==
    UnionOver([n \in 1..Len(msgs) |->
        {msgs[n].extension[k].extendee : k \in 1..Len(msgs[n].extension)}
        \cup NestedExtendees(msgs[n].nested_type)])

\* the message types a file refers to by name
TypeReferences(pf) ==
    {pf.extension[k].extendee : k \in 1..Len(pf.extension)}
    \cup NestedExtendees(pf.message_type)
    \cup UNION {{m.input_type : m \in Range(sd.method)}
                \cup {m.output_type : m \in Range(sd.method)} :
                    sd \in Range(pf.service)}

\* a file depends on itself through the dependencies of the batch
RECURSIVE Reaches(_, _, _, _)
Reaches(from, to, files, fuel) ==
    \E pf \in Range(files) :
        /\ pf.name = from
        /\ \/ to \in Range(pf.dependency)
           \/ /\ fuel > 0
              /\ \E d \in Range(pf.dependency) : Reaches(d, to, files, fuel - 1)

\* the descriptors built as with AllowUnresolvable: a missing import or an
\* unresolved type reference is no error
DescriptorsResolveUnresolvable(request) ==
    LET files == request.proto_file
        names == [n \in 1..Len(files) |-> files[n].name]
        declared == Flatten([n \in 1..Len(files) |-> DeclaredNames(files[n])])
    IN /\ Cardinality(Range(names)) = Len(names)
       /\ \A pf \in Range(files) : ~Reaches(pf.name, pf.name, files, Len(files))
       /\ Cardinality(Range(declared)) = Len(declared)

\* protodesc.NewFiles and protodesc.NewFile succeed on every file of the
\* request: the file names are distinct, every import is a file of the
\* request, the imports have no cycle, no full name is declared twice and
\* every type reference resolves in what the file imports
DescriptorsResolve(request) ==
    LET files == request.proto_file
        names == [n \in 1..Len(files) |-> files[n].name]
        declared == Flatten([n \in 1..Len(files) |-> DeclaredNames(files[n])])
    IN /\ Cardinality(Range(names)) = Len(names)
       /\ \A pf \in Range(files) : Range(pf.dependency) \subseteq Range(names)
       /\ \A pf \in Range(files) : ~Reaches(pf.name, pf.name, files, Len(files))
       /\ Cardinality(Range(declared)) = Len(declared)
       /\ \A pf \in Range(files) :
            LET seen == Visible({pf.name} \cup Range(pf.dependency), files, Len(files))
                msgs == UNION {Range(MessageNames(q.package, q.message_type)) :
                                q \in {r \in Range(files) : r.name \in seen}}
            IN \A ref \in TypeReferences(pf) : TrimDot(ref) \in msgs

\* getAllFileDescriptor, when it does not end the process
getAllFileDescriptor(request) ==
    [name \in {pf.name : pf \in Range(request.proto_file)} |->
        NewFile(CHOOSE pf \in Range(request.proto_file) : pf.name = name)]

(***************************************************************************)
(* context: the values the builders hand down.  A context is a record of   *)
(* the five keys; a key that was never set is Nil.                         *)
(***************************************************************************)
Background == [all_files |-> Nil, file |-> Nil, descriptor |-> Nil,
               enum |-> Nil, service |-> Nil]

ContextWithAllFiles(ctx, files) == [ctx EXCEPT !.all_files = files]
AllFilesFromContext(ctx) == ctx.all_files

ContextWithFileDescriptor(ctx, fd) == [ctx EXCEPT !.file = fd]
FileDescriptorFromContext(ctx) == ctx.file

ContextWithDescriptor(ctx, d) == [ctx EXCEPT !.descriptor = d]
\* the value, and whether the key was found
DescriptorFromContext(ctx) == <<ctx.descriptor, ctx.descriptor # Nil>>

ContextWithEnumDescriptor(ctx, d) == [ctx EXCEPT !.enum = d]
EnumDescriptorFromContext(ctx) == ctx.enum

ContextWithServiceDescriptor(ctx, service) == [ctx EXCEPT !.service = service]
ServiceDescriptorFromContext(ctx) == ctx.service

(***************************************************************************)
(* types: the lookups the builders use.                                    *)
(***************************************************************************)
\* the first element of a list that satisfies a test given as the set of
\* the indices that pass, nil when none does
FirstOf(list, hits) ==
    IF hits = {} THEN Nil
    ELSE list[CHOOSE n \in hits : \A m \in hits : n <= m]

\* PKFileDescriptor.GetMessage that searches by name and long name only
FileGetMessageNoFullName(f, name) ==
    FirstOf(f.Messages,
            {n \in 1..Len(f.Messages) :
                \/ f.Messages[n].desc.name = name
                \/ f.Messages[n].common.LongName = name})

\* PKFileDescriptor.GetMessage
FileGetMessage(f, name) ==
    FirstOf(f.Messages,
            {n \in 1..Len(f.Messages) :
                \/ f.Messages[n].desc.name = name
                \/ f.Messages[n].common.LongName = name
                \/ f.Messages[n].common.FullName = name})

\* the indices of the entities of a list whose name or long name is name
NameOrLongName(list, name) ==
    {n \in 1..Len(list) :
        list[n].desc.name = name \/ list[n].common.LongName = name}

\* PKFileDescriptor.GetEnum
FileGetEnum(f, name) == FirstOf(f.Enums, NameOrLongName(f.Enums, name))

\* PKFileDescriptor.GetService
FileGetService(f, name) == FirstOf(f.Services, NameOrLongName(f.Services, name))

\* PKDescriptor.GetEnum
MessageGetEnum(m, name) == FirstOf(m.Enums, NameOrLongName(m.Enums, name))

\* PKDescriptor.GetMessage
MessageGetMessage(m, name) == FirstOf(m.Messages, NameOrLongName(m.Messages, name))

\* a field lookup that compares the bare name only, as GetNamedValue does
MessageGetMessageFieldByName(m, name) ==
    FirstOf(m.Fields, {n \in 1..Len(m.Fields) : m.Fields[n].desc.name = name})

\* PKDescriptor.GetMessageField
MessageGetMessageField(m, name) == FirstOf(m.Fields, NameOrLongName(m.Fields, name))

\* PKServiceDescriptor.GetNamedMethod
GetNamedMethod(sv, name) == FirstOf(sv.Methods, NameOrLongName(sv.Methods, name))

\* a back-reference that is never set
PtrOfNothing(entity) == Nil

\* the pointer to an entity a lookup returned, nil when it found none
PtrOf(entity) == IF entity = Nil THEN Nil ELSE entity.ptr

(***************************************************************************)
(* parser: the entity builders.                                            *)
(***************************************************************************)
parseEnumValues(ctx, protos) ==
    LET file == FileDescriptorFromContext(ctx)
        enum == EnumDescriptorFromContext(ctx)
    IN [n \in 1..Len(protos) |->
        LET i == n - 1
            vd == protos[n]
            longName == SprintfSS(enum.common.LongName, vd.name)
        IN WithOptions(
            [ptr |-> EntityPtr(FileGetName(file), Below(enum.ptr.at, "value", i)),
             common |-> newCommon(file, "", longName),
             desc |-> vd,
             Enum |-> enum.ptr,
             Comments |-> CommentsGet(file.comments,
                            SprintfSDD(enum.common.path, enumValueCommentPath, i))],
            vd.options)]

parseEnums(ctx, protos) ==
    LET file == FileDescriptorFromContext(ctx)
        parent == DescriptorFromContext(ctx)[1]
        hasParent == DescriptorFromContext(ctx)[2]
    IN [n \in 1..Len(protos) |->
        LET i == n - 1
            ed == protos[n]
            longName == IF hasParent
                        THEN SprintfSS(parent.common.LongName, ed.name)
                        ELSE ed.name
            commentPath == IF hasParent
                           THEN SprintfSDD(parent.common.path, messageEnumCommentPath, i)
                           ELSE SprintfDD(enumCommentPath, i)
            enum == WithOptions(
                [ptr |-> EntityPtr(FileGetName(file),
                            Below(IF hasParent THEN parent.ptr.at ELSE <<>>,
                                  "enum_type", i)),
                 common |-> newCommon(file, commentPath, longName),
                 desc |-> ed,
                 Comments |-> CommentsGet(file.comments, commentPath),
                 Parent |-> PtrOf(parent),
                 Values |-> <<>>],
                ed.options)
            subCtx == ContextWithEnumDescriptor(ctx, enum)
        IN [enum EXCEPT !.Values = parseEnumValues(subCtx, ed.value)]]

\* the long name of an extension cut down only when the extendee begins
\* with the package of the file as whole segments
ExtensionLongNameByPrefix(file, ext) ==
    LET longName == SprintfSS(ext.extendee, ext.name)
        pkg == FileGetPackage(file)
    IN IF pkg # "" /\ HasPrefix(TrimDot(ext.extendee), pkg \o ".")
       THEN LET parts == Split(ext.extendee, ".")
            IN SprintfSS(parts[Len(parts)], ext.name)
       ELSE longName

\* the long name of an extension: extendee.name, cut down to the last
\* segment of the extendee when it contains the package of the file
ExtensionLongName(file, ext) ==
    LET longName == SprintfSS(ext.extendee, ext.name)
    IN IF Contains(longName, FileGetPackage(file))
       THEN LET parts == Split(ext.extendee, ".")
            IN SprintfSS(parts[Len(parts)], ext.name)
       ELSE longName

parseExtensions(ctx, protos) ==
    LET file == FileDescriptorFromContext(ctx)
        parent == DescriptorFromContext(ctx)[1]
        hasParent == DescriptorFromContext(ctx)[2]
    IN [n \in 1..Len(protos) |->
        LET i == n - 1
            ext == protos[n]
            longName == ExtensionLongName(file, ext)
            commentPath == IF hasParent
                           THEN SprintfSDD(parent.common.path,
                                           messageExtensionCommentPath, i)
                           ELSE SprintfDD(extensionCommentPath, i)
        IN WithOptions(
            [ptr |-> EntityPtr(FileGetName(file),
                        Below(IF hasParent THEN parent.ptr.at ELSE <<>>,
                              "extension", i)),
             common |-> newCommon(file, commentPath, longName),
             desc |-> ext,
             Comments |-> CommentsGet(file.comments, commentPath),
             Parent |-> PtrOf(parent),
             ExtensionDescriptor |-> ByName(file.FileDescriptor.Extensions, ext.name)],
            ext.options)]

\* parseMessageFields naming a field by its bare name
parseMessageFieldsBare(ctx, protos) ==
    LET file == FileDescriptorFromContext(ctx)
        message == DescriptorFromContext(ctx)[1]
    IN [n \in 1..Len(protos) |->
        LET i == n - 1
            fd == protos[n]
        IN WithOptions(
            [ptr |-> EntityPtr(FileGetName(file), Below(message.ptr.at, "field", i)),
             common |-> newCommon(file, "", fd.name),
             desc |-> fd,
             Comments |-> CommentsGet(file.comments,
                            SprintfSDD(message.common.path, messageFieldCommentPath, i)),
             Message |-> message.ptr],
            fd.options)]

parseMessageFields(ctx, protos) ==
    LET file == FileDescriptorFromContext(ctx)
        message == DescriptorFromContext(ctx)[1]
    IN [n \in 1..Len(protos) |->
        LET i == n - 1
            fd == protos[n]
            longName == SprintfSS(message.common.LongName, fd.name)
        IN WithOptions(
            [ptr |-> EntityPtr(FileGetName(file), Below(message.ptr.at, "field", i)),
             common |-> newCommon(file, "", longName),
             desc |-> fd,
             Comments |-> CommentsGet(file.comments,
                            SprintfSDD(message.common.path, messageFieldCommentPath, i)),
             Message |-> message.ptr],
            fd.options)]

RECURSIVE parseMessages(_, _)
parseMessages(ctx, protos) ==
    LET file == FileDescriptorFromContext(ctx)
        parent == DescriptorFromContext(ctx)[1]
        hasParent == DescriptorFromContext(ctx)[2]
    IN [n \in 1..Len(protos) |->
        LET i == n - 1
            md == protos[n]
            longName == IF hasParent
                        THEN SprintfSS(parent.common.LongName, md.name)
                        ELSE md.name
            commentPath == IF hasParent
                           THEN SprintfSDD(parent.common.path,
                                           messageMessageCommentPath, i)
                           ELSE SprintfDD(messageCommentPath, i)
            msg == WithOptions(
                [ptr |-> EntityPtr(FileGetName(file),
                            IF hasParent
                            THEN Below(parent.ptr.at, "nested_type", i)
                            ELSE Below(<<>>, "message_type", i)),
                 common |-> newCommon(file, commentPath, longName),
                 desc |-> md,
                 Comments |-> CommentsGet(file.comments, commentPath),
                 Parent |-> PtrOf(parent),
                 Enums |-> <<>>, Extensions |-> <<>>,
                 Fields |-> <<>>, Messages |-> <<>>],
                md.options)
            msgCtx == ContextWithDescriptor(ctx, msg)
        IN [msg EXCEPT !.Enums = parseEnums(msgCtx, md.enum_type),
                       !.Extensions = parseExtensions(msgCtx, md.extension),
                       !.Fields = parseMessageFields(msgCtx, md.field),
                       !.Messages = parseMessages(msgCtx, md.nested_type)]]

parseServiceMethods(ctx, protos) ==
    LET file == FileDescriptorFromContext(ctx)
        svc == ServiceDescriptorFromContext(ctx)
    IN [n \in 1..Len(protos) |->
        LET i == n - 1
            md == protos[n]
            longName == SprintfSS(svc.common.LongName, md.name)
        IN WithOptions(
            [ptr |-> EntityPtr(FileGetName(file), Below(svc.ptr.at, "method", i)),
             common |-> newCommon(file, "", longName),
             desc |-> md,
             Comments |-> CommentsGet(file.comments,
                            SprintfSDD(svc.common.path, serviceMethodCommentPath, i)),
             Service |-> svc.ptr,
             MethodDescriptor |-> ByName(svc.ServiceDescriptor.Methods, md.name),
             InputType |-> PtrOf(FileGetMessage(file, md.input_type)),
             OutputType |-> PtrOf(FileGetMessage(file, md.output_type))],
            md.options)]

parseServices(ctx, protos) ==
    LET file == FileDescriptorFromContext(ctx)
    IN [n \in 1..Len(protos) |->
        LET i == n - 1
            sd == protos[n]
            longName == sd.name
            commentPath == SprintfDD(serviceCommentPath, i)
            svc == WithOptions(
                [ptr |-> EntityPtr(FileGetName(file), Below(<<>>, "service", i)),
                 common |-> newCommon(file, commentPath, longName),
                 desc |-> sd,
                 Comments |-> CommentsGet(file.comments, commentPath),
                 ServiceDescriptor |-> ByName(file.FileDescriptor.Services, sd.name),
                 Methods |-> <<>>],
                sd.options)
            svcCtx == ContextWithServiceDescriptor(ctx, svc)
        IN [svc EXCEPT !.Methods = parseServiceMethods(svcCtx, sd.method)]]

\* a map lookup that yields the zero value, a nil pointer, for a missing key
Lookup(files, name) == IF name \in DOMAIN files THEN FilePtr(name) ELSE Nil

parseFile(ctx, fd, f) ==
    LET comments == ParseComments(fd)
        files == AllFilesFromContext(ctx)
        file0 == [comments |-> comments,
                  desc |-> fd,
                  PackageComments |-> CommentsGet(comments, Itoa(packageCommentPath)),
                  SyntaxComments |-> CommentsGet(comments, Itoa(syntaxCommentPath)),
                  FileDescriptor |-> f,
                  Enums |-> <<>>, Extensions |-> <<>>, Imports |-> <<>>,
                  Messages |-> <<>>, Services |-> <<>>,
                  Dependencies |-> <<>>, PublicDependencies |-> <<>>,
                  OptionExtensions |-> Nil,
                  IsFileToGenerate |-> FALSE]
        file1 == IF fd.options # Nil
                 THEN [file0 EXCEPT !.OptionExtensions =
                                        setOptions(file0.OptionExtensions, fd.options)]
                 ELSE file0
        file2 == [file1 EXCEPT !.Enums =
                    parseEnums(ContextWithFileDescriptor(ctx, file1), fd.enum_type)]
        file3 == [file2 EXCEPT !.Extensions =
                    parseExtensions(ContextWithFileDescriptor(ctx, file2), fd.extension)]
        file4 == [file3 EXCEPT !.Messages =
                    parseMessages(ContextWithFileDescriptor(ctx, file3), fd.message_type)]
        file5 == [file4 EXCEPT !.Services =
                    parseServices(ContextWithFileDescriptor(ctx, file4), fd.service)]
    IN [file5 EXCEPT
            !.Dependencies =
                [k \in 1..Len(fd.dependency) |-> Lookup(files, fd.dependency[k])],
            !.PublicDependencies =
                [k \in 1..Len(fd.public_dependency) |->
                    Lookup(files, fd.dependency[fd.public_dependency[k] + 1])]]

(***************************************************************************)
(* parser: the import resolver.                                            *)
(***************************************************************************)
\* &PKImportedDescriptor{d.common} of each entity of a list, in order
Imported(list) == [n \in 1..Len(list) |-> [common |-> list[n].common]]

\* the import list of a dependency without the map-entry test
ImportsOfAll(file) ==
    Imported(file.Messages) \o Imported(file.Enums) \o Imported(file.Extensions)

\* what one dependency adds to the import list: its top-level messages
\* that are no map entries, its top-level enums, its top-level extensions
ImportsOf(file) ==
    Imported(SelectSeq(file.Messages, LAMBDA d : ~GetMapEntry(d.desc.options)))
    \o Imported(file.Enums)
    \o Imported(file.Extensions)

\* parseAllImports walking the dependencies from the last to the first
parseAllImportsBackwards(fd, files) ==
    Flatten([k \in 1..Len(fd.desc.dependency) |->
                ImportsOf(files[fd.desc.dependency[Len(fd.desc.dependency) + 1 - k]])])

\* parseAllImports: the Imports it leaves in fd
parseAllImports(fd, files) ==
    Flatten([k \in 1..Len(fd.desc.dependency) |->
                ImportsOf(files[fd.desc.dependency[k]])])

(***************************************************************************)
(* parser: the batch driver, ParseCodeGenRequestAllFiles, step by step.    *)
(***************************************************************************)
\* the top-level extensions of every file of the batch, as extension types
BatchExtensions(fileDescs) ==
    UNION {Range(fileDescs[name].Extensions) : name \in DOMAIN fileDescs}

\* the list left in the order the map iteration produced
KeepOrder(ptrs) == ptrs

\* sort.Slice(allFiles, by GetName): insertion of each pointer in its place
RECURSIVE SortByName(_)
SortByName(ptrs) ==
    IF Len(ptrs) <= 1 THEN ptrs
    ELSE LET least == CHOOSE p \in Range(ptrs) :
                        \A q \in Range(ptrs) : ~StrLess(q.file, p.file)
             rest == SelectSeq(ptrs, LAMBDA q : q # least)
         IN <<least>> \o SortByName(rest)

\* allFileDesc := getAllFileDescriptor(req); log.Fatal ends the process
\* when the descriptors of the request do not resolve
GetAllFileDescriptor ==
    /\ pc = "start"
    /\ IF DescriptorsResolve(req)
       THEN /\ allFileDesc' = getAllFileDescriptor(req)
            /\ pc' = "register"
       ELSE /\ pc' = "fatal"
            /\ UNCHANGED allFileDesc
    /\ UNCHANGED <<call, req, registry, allFilesMap, allFiles, result>>

\* the registration step passing over an extension registered already
RegisterAllExtensionsSkipping ==
    /\ pc = "register"
    /\ registry' = registry \cup BatchExtensions(allFileDesc)
    /\ pc' = "redecode"
    /\ UNCHANGED <<call, req, allFileDesc, allFilesMap, allFiles, result>>

\* registerAllExtensions(allFileDesc); log.Fatal ends the process when an
\* extension of that full name is registered already
RegisterAllExtensions ==
    /\ pc = "register"
    /\ LET new == BatchExtensions(allFileDesc)
       IN IF \E xt \in new : xt.FullName \in {r.FullName : r \in registry}
          THEN /\ pc' = "fatal"
               /\ UNCHANGED registry
          ELSE /\ registry' = registry \cup new
               /\ pc' = "redecode"
    /\ UNCHANGED <<call, req, allFileDesc, allFilesMap, allFiles, result>>

\* the re-decode step handing back the list built so far with the error
ReUnmarshalReqWithList ==
    /\ pc = "redecode"
    /\ \E ok \in BOOLEAN :
        IF ok
        THEN /\ pc' = "build"
             /\ UNCHANGED result
        ELSE /\ pc' = "done"
             /\ result' = [files |-> allFiles, err |-> [error |-> "unmarshal"]]
    /\ UNCHANGED <<call, req, registry, allFileDesc, allFilesMap, allFiles>>

\* err := reUnmarshalReq(req): the driver returns the error, and no files
ReUnmarshalReq ==
    /\ pc = "redecode"
    /\ \E ok \in BOOLEAN :
        IF ok
        THEN /\ pc' = "build"
             /\ UNCHANGED result
        ELSE /\ pc' = "done"
             /\ result' = [files |-> Nil, err |-> [error |-> "unmarshal"]]
    /\ UNCHANGED <<call, req, registry, allFileDesc, allFilesMap, allFiles>>

\* one turn of "for _, pf := range req.GetProtoFile()": the next file of the
\* request is assembled and stored under its name
ParseFile ==
    /\ pc = "build"
    /\ LET k == Cardinality(DOMAIN allFilesMap) + 1
           pf == req.proto_file[k]
           ctx == ContextWithAllFiles(Background, allFilesMap)
           file == parseFile(ctx, pf, allFileDesc[pf.name])
       IN /\ allFilesMap' = [name \in DOMAIN allFilesMap \cup {pf.name} |->
                                IF name = pf.name THEN file ELSE allFilesMap[name]]
          /\ pc' = IF k = Len(req.proto_file) THEN "link" ELSE "build"
    /\ UNCHANGED <<call, req, registry, allFileDesc, allFiles, result>>

\* one turn of "for _, f := range allFilesMap", which visits the files in
\* an order Go does not fix
ParseAllImports ==
    /\ pc = "link"
    /\ \E name \in DOMAIN allFilesMap \ {p.file : p \in Range(allFiles)} :
        /\ allFilesMap' = [allFilesMap EXCEPT ![name].Imports =
                                parseAllImports(allFilesMap[name], allFilesMap)]
        /\ allFiles' = Append(allFiles, FilePtr(name))
        /\ pc' = IF Len(allFiles) + 1 = Cardinality(DOMAIN allFilesMap)
                 THEN "mark" ELSE "link"
    /\ UNCHANGED <<call, req, registry, allFileDesc, result>>

\* the marking step flagging every file of the batch
MarkEveryFile ==
    /\ pc = "mark"
    /\ allFilesMap' = [name \in DOMAIN allFilesMap |->
                        [allFilesMap[name] EXCEPT !.IsFileToGenerate = TRUE]]
    /\ pc' = "sort"
    /\ UNCHANGED <<call, req, registry, allFileDesc, allFiles, result>>

\* "for _, f := range req.FileToGenerate": a name that is no file of the
\* batch is a nil pointer dereference
MarkFilesToGenerate ==
    /\ pc = "mark"
    /\ IF Range(req.file_to_generate) \subseteq DOMAIN allFilesMap
       THEN /\ allFilesMap' = [name \in DOMAIN allFilesMap |->
                                IF name \in Range(req.file_to_generate)
                                THEN [allFilesMap[name] EXCEPT !.IsFileToGenerate = TRUE]
                                ELSE allFilesMap[name]]
            /\ pc' = "sort"
       ELSE /\ pc' = "panic"
            /\ UNCHANGED allFilesMap
    /\ UNCHANGED <<call, req, registry, allFileDesc, allFiles, result>>

\* sort.Slice(allFiles, ...)
SortFiles ==
    /\ pc = "sort"
    /\ allFiles' = SortByName(allFiles)
    /\ pc' = "return"
    /\ UNCHANGED <<call, req, registry, allFileDesc, allFilesMap, result>>

\* return allFiles, nil
Return ==
    /\ pc = "return"
    /\ result' = [files |-> allFiles, err |-> Nil]
    /\ pc' = "done"
    /\ UNCHANGED <<call, req, registry, allFileDesc, allFilesMap, allFiles>>

(***************************************************************************)
(* The requests the driver is run on.                                      *)
(***************************************************************************)
Packages == {"", "a", "a.b", "b"}

\* the lists of files to generate tried for a batch: each single file, and
\* all of them
GenerateChoices(files) ==
    {<<files[n].name>> : n \in 1..Len(files)}
    \cup {[n \in 1..Len(files) |-> files[n].name]}

\* the batches: the library alone; the library alone with an import that
\* is no file of the batch; the client with its library, in either order;
\* the client alone, its import missing; and three files, the client
\* importing z.proto either not at all or publicly
Batches ==
    {<<LibFile(q, <<>>, d)>> : q \in Packages, d \in 0..MaxNest}
    \cup {<<LibFile(q, <<"z.proto">>, 0)>> : q \in Packages}
    \cup {<<LibFile(q, <<>>, d), ClientFile(p, q, <<"y.proto">>, <<>>)>> :
            p \in Packages, q \in Packages, d \in 0..MaxNest}
    \cup {<<ClientFile(p, q, <<"y.proto">>, <<>>), LibFile(q, <<>>, d)>> :
            p \in Packages, q \in Packages, d \in 0..MaxNest}
    \cup {<<ClientFile(p, q, <<"y.proto">>, <<>>)>> :
            p \in Packages, q \in Packages}
    \cup {<<BaseFile(q), LibFile(q, <<"z.proto">>, MaxNest),
            ClientFile(p, q, <<"y.proto">>, <<>>)>> :
            p \in Packages, q \in Packages}
    \cup {<<BaseFile(p), LibFile(q, <<"z.proto">>, 0),
            ClientFile(p, q, <<"z.proto", "y.proto">>, <<0>>)>> :
            p \in Packages, q \in Packages}

Requests ==
    UNION {{Request(files, gen) : gen \in GenerateChoices(files)} : files \in Batches}

Init ==
    /\ req \in Requests
    /\ pc = "start"
    /\ registry = {}
    /\ allFileDesc = <<>>
    /\ allFilesMap = <<>>
    /\ allFiles = <<>>
    /\ result = Nil
    /\ call = Nil

Next ==
    \/ GetAllFileDescriptor
    \/ RegisterAllExtensions
    \/ ReUnmarshalReq
    \/ ParseFile
    \/ ParseAllImports
    \/ MarkFilesToGenerate
    \/ SortFiles
    \/ Return

Spec == Init /\ [][Next]_vars

(***************************************************************************)
(* The driver called again and again in one process: the global registry   *)
(* keeps what the earlier calls registered.                                *)
(***************************************************************************)
\* the batches of the repeated calls: the library alone, and the client
\* with its library
RerunBatches ==
    {<<LibFile(q, <<>>, 0)>> : q \in {"a", "b"}}
    \cup {<<LibFile(q, <<>>, 0), ClientFile(p, q, <<"y.proto">>, <<>>)>> :
            p \in {"a", "b"}, q \in {"a", "b"}}

RerunRequests ==
    UNION {{Request(files, gen) : gen \in GenerateChoices(files)} :
                files \in RerunBatches}

InitRerun ==
    /\ req \in RerunRequests
    /\ pc = "start"
    /\ registry = {}
    /\ allFileDesc = <<>>
    /\ allFilesMap = <<>>
    /\ allFiles = <<>>
    /\ result = Nil
    /\ call = Nil

\* the caller, handed a result or an error, calls the driver on another
\* request; a fatal exit has ended the process
RunAgain ==
    /\ pc = "done"
    /\ req' \in RerunRequests
    /\ pc' = "start"
    /\ allFileDesc' = <<>>
    /\ allFilesMap' = <<>>
    /\ allFiles' = <<>>
    /\ result' = Nil
    /\ UNCHANGED <<call, registry>>

NextRerun ==
    \/ GetAllFileDescriptor
    \/ RegisterAllExtensions
    \/ ReUnmarshalReq
    \/ ParseFile
    \/ ParseAllImports
    \/ MarkFilesToGenerate
    \/ SortFiles
    \/ Return
    \/ RunAgain

RerunSpec == InitRerun /\ [][NextRerun]_vars

(***************************************************************************)
(* The naming helper on its own: newCommon is called once, on a file of    *)
(* any package and with any long name.                                     *)
(***************************************************************************)
\* the names long names are made of
Names == {"M", "N", "f"}

\* the dotted names of at most depth segments
RECURSIVE Dotted(_)
Dotted(depth) ==
    IF depth = 1 THEN Names
    ELSE Dotted(depth - 1)
         \cup {SprintfSS(prefix, name) : prefix \in Dotted(depth - 1), name \in Names}

\* the long names a builder may supply: local names qualified by enclosing
\* messages, and extendee-qualified names, which begin with a dot
LongNames == Dotted(MaxNest + 1) \cup {"." \o name : name \in Dotted(MaxNest + 1)}

InitNaming ==
    /\ req = Nil
    /\ pc = "naming"
    /\ registry = {}
    /\ allFileDesc = <<>>
    /\ allFilesMap = <<>>
    /\ allFiles = <<>>
    /\ result = Nil
    /\ call = Nil

CallNewCommon ==
    /\ pc = "naming"
    /\ call = Nil
    /\ \E pkg \in Packages, longName \in LongNames, path \in {"", "4.0"} :
        LET f == [desc |-> [name |-> "x.proto", package |-> pkg]]
        IN call' = [f |-> f, path |-> path, longName |-> longName,
                    ret |-> newCommon(f, path, longName)]
    /\ UNCHANGED <<req, pc, registry, allFileDesc, allFilesMap, allFiles, result>>

NextNaming == CallNewCommon

NamingSpec == InitNaming /\ [][NextNaming]_vars

(***************************************************************************)
(* The scanner on its own: setOptions is called, any number of times, on   *)
(* one receiver, against a registry of any content that does not change.   *)
(***************************************************************************)
\* the extension types the registry may hold: two options of messages,
\* declared in two packages, and one option of fields
ScanTypes ==
    {ExtensionDescriptorOf("a", FieldProto("opt", ".google.protobuf.MessageOptions")),
     ExtensionDescriptorOf("b", FieldProto("opt", ".google.protobuf.MessageOptions")),
     ExtensionDescriptorOf("a", FieldProto("fopt", ".google.protobuf.FieldOptions"))}

\* the values an extension may be set to
ScanValues == {"v1", "v2"}

\* the options payloads: of either type, with any of the extensions of
\* that type set, whether or not the registry knows them
Payloads ==
    UNION {{[type |-> t, map_entry |-> FALSE, ext |-> e] :
                e \in UNION {[S -> ScanValues] :
                    S \in SUBSET {xt.FullName : xt \in
                            {y \in ScanTypes : y.ContainingMessage = t}}}} :
            t \in {xt.ContainingMessage : xt \in ScanTypes}}

InitScanner ==
    /\ req = Nil
    /\ pc = "scanning"
    /\ registry \in SUBSET ScanTypes
    /\ allFileDesc = <<>>
    /\ allFilesMap = <<>>
    /\ allFiles = <<>>
    /\ result = Nil
    /\ call = Nil

\* c.setOptions(options), on a receiver whose OptionExtensions is nil at
\* first and afterwards what the earlier calls left; the call is recorded
\* with what getOptions returned and with the effect of calling it again
CallSetOptions ==
    /\ pc = "scanning"
    /\ \E options \in Payloads :
        LET before == IF call = Nil THEN Nil ELSE call.after
            after == setOptions(before, options)
        IN call' = [options |-> options, before |-> before,
                    ret |-> getOptions(options), after |-> after,
                    again |-> setOptions(after, options)]
    /\ UNCHANGED <<req, pc, registry, allFileDesc, allFilesMap, allFiles, result>>

NextScanner == CallSetOptions

ScannerSpec == InitScanner /\ [][NextScanner]_vars

(***************************************************************************)
(* What the claims quantify over: the entities of the assembled trees.     *)
(***************************************************************************)
\* the messages of a list and the messages nested in them, at any depth
RECURSIVE MessagesIn(_)
MessagesIn(msgs) ==
    Range(msgs) \cup UNION {MessagesIn(m.Messages) : m \in Range(msgs)}

\* an entity as the claims see it: its kind, its pointer, its common facet,
\* its local name, its comment and the pointer to what encloses it (the
\* parent message, or the owning message, enum or service; Nil at top level)
View(kind, e, owner) ==
    [kind |-> kind, ptr |-> e.ptr, common |-> e.common, name |-> e.desc.name,
     Comments |-> e.Comments, owner |-> owner, desc |-> e.desc]

\* every entity of the tree of a file
Entities(f) ==
    LET msgs == MessagesIn(f.Messages)
        enums == Range(f.Enums) \cup UNION {Range(m.Enums) : m \in msgs}
        exts == Range(f.Extensions) \cup UNION {Range(m.Extensions) : m \in msgs}
    IN {View("message", m, m.Parent) : m \in msgs}
       \cup {View("enum", e, e.Parent) : e \in enums}
       \cup UNION {{View("value", v, v.Enum) : v \in Range(e.Values)} : e \in enums}
       \cup {View("extension", x, x.Parent) : x \in exts}
       \cup UNION {{View("field", fd, fd.Message) : fd \in Range(m.Fields)} : m \in msgs}
       \cup {View("service", sv, Nil) : sv \in Range(f.Services)}
       \cup UNION {{View("method", md, md.Service) : md \in Range(sv.Methods)} :
                        sv \in Range(f.Services)}

\* every entity built so far, in any file
AllEntities == UNION {Entities(allFilesMap[name]) : name \in DOMAIN allFilesMap}

\* the package of the file an entity belongs to
PackageOf(e) == FileGetPackage(allFilesMap[e.common.file.file])

\* the driver has returned a list of files
Returned == pc = "done" /\ result # Nil /\ result.err = Nil

Kinds == {"message", "enum", "value", "extension", "field", "service", "method"}

(***************************************************************************)
(* C1: every entity built by any builder, in a file of any package, the    *)
(* empty package included, has a FullName that begins with a dot.          *)
(***************************************************************************)
C1_FullNameLeadingDot ==
    \A e \in AllEntities : HasPrefix(e.common.FullName, ".")

\* the driver has returned a batch with a file of the empty package and a
\* file of a dotted package, entities of all seven kinds, and an extension
\* whose long name was taken over as its full name
C1_Witness ==
    /\ Returned
    /\ \A k \in Kinds : \E e \in AllEntities : e.kind = k
    /\ \E e \in AllEntities : PackageOf(e) = ""
    /\ \E e \in AllEntities : PackageOf(e) = "a.b"
    /\ \E e \in AllEntities : e.kind = "extension" /\ HasPrefix(e.common.LongName, ".")

(***************************************************************************)
(* C2: newCommon(file, path, longName) returns LongName = longName, and    *)
(* FullName = longName when longName begins with a dot, otherwise          *)
(* "." + package + "." + LongName, for every package, the empty one too.   *)
(***************************************************************************)
C2_AsClaimed ==
    call # Nil =>
        /\ call.ret.LongName = call.longName
        /\ call.ret.FullName =
            IF HasPrefix(call.longName, ".")
            THEN call.longName
            ELSE "." \o FileGetPackage(call.f) \o "." \o call.ret.LongName

\* C2 as amended: with the empty package the full name is "." + LongName,
\* with one dot, not two
C2_NewCommon ==
    call # Nil =>
        /\ call.ret.LongName = call.longName
        /\ call.ret.path = call.path
        /\ call.ret.FullName =
            IF HasPrefix(call.longName, ".") THEN call.longName
            ELSE IF FileGetPackage(call.f) = "" THEN "." \o call.ret.LongName
            ELSE "." \o FileGetPackage(call.f) \o "." \o call.ret.LongName

\* newCommon was called with the empty package and a long name without a dot
C2_Witness ==
    /\ call # Nil
    /\ FileGetPackage(call.f) = ""
    /\ ~HasPrefix(call.longName, ".")
    /\ call.ret.FullName = "." \o call.longName

(***************************************************************************)
(* C3: after the batch driver returns, no two distinct entities of the     *)
(* batch, of any kind and in any file, have the same FullName; extensions  *)
(* declared in different scopes that extend the same message included.     *)
(***************************************************************************)
C3_FullNameUnique ==
    Returned =>
        \A e1 \in AllEntities, e2 \in AllEntities :
            e1.ptr # e2.ptr => e1.common.FullName # e2.common.FullName

(***************************************************************************)
(* C4: the LongName of every entity is qualified by enclosing message      *)
(* names only: it does not begin with a dot, and it carries neither the    *)
(* package of its file nor, for an extension, the package of the message   *)
(* it extends.                                                             *)
(***************************************************************************)
\* the package is one or more whole leading segments of the name
QualifiedBy(longName, pkg) ==
    pkg # "" /\ HasPrefix(TrimDot(longName) \o ".", pkg \o ".")

\* the packages of the files of the request that declare the message an
\* extension extends
ExtendeePackages(ext) ==
    {pf.package : pf \in {q \in Range(req.proto_file) :
        TrimDot(ext.desc.extendee) \in Range(MessageNames(q.package, q.message_type))}}

C4_LongNameNoPackage ==
    \A e \in AllEntities :
        /\ ~HasPrefix(e.common.LongName, ".")
        /\ ~QualifiedBy(e.common.LongName, PackageOf(e))
        /\ e.kind = "extension" =>
            \A pkg \in ExtendeePackages(e) : ~QualifiedBy(e.common.LongName, pkg)

(***************************************************************************)
(* C5: the LongName of a nested message, enum or extension is the          *)
(* enclosing message's LongName + "." + its local name, at every depth;    *)
(* the LongName of a field, enum value or method is the LongName of its    *)
(* message, enum or service + "." + its name; the LongName of a top-level  *)
(* message, enum, extension or service is its bare local name.             *)
(***************************************************************************)
\* the node of a tree a position leads to, one step per level
RECURSIVE Walk(_, _)
Walk(node, at) ==
    IF Len(at) = 0 THEN node
    ELSE LET slot == at[1][1]
             list == CASE slot \in {"message_type", "nested_type"} -> node.Messages
                       [] slot = "enum_type" -> node.Enums
                       [] slot = "extension" -> node.Extensions
                       [] slot = "field" -> node.Fields
                       [] slot = "value" -> node.Values
                       [] slot = "service" -> node.Services
                       [] slot = "method" -> node.Methods
         IN Walk(list[at[1][2] + 1], Tail(at))

\* the entity a pointer points to
Deref(ptr) == Walk(allFilesMap[ptr.file], ptr.at)

\* the long name the claim gives an entity
NestedLongName(e) ==
    IF e.owner = Nil THEN e.name
    ELSE Deref(e.owner).common.LongName \o "." \o e.name

ExtendeeLongNames(e) ==
    LET parts == Split(e.desc.extendee, ".")
    IN {e.desc.extendee \o "." \o e.name, parts[Len(parts)] \o "." \o e.name}

TagOfStep(slot, nested) ==
    CASE slot = "message_type" -> 4
      [] slot = "nested_type" -> 3
      [] slot = "enum_type" -> IF nested THEN 4 ELSE 5
      [] slot = "extension" -> IF nested THEN 6 ELSE 7
      [] slot = "service" -> 6
      [] slot \in {"field", "value", "method"} -> 2

\* the location path of a position: tag and index of each step
RECURSIVE PathOfPosition(_)
PathOfPosition(at) ==
    IF Len(at) = 0 THEN <<>>
    ELSE LET step == at[Len(at)]
         IN PathOfPosition(SubSeq(at, 1, Len(at) - 1))
            \o <<TagOfStep(step[1], Len(at) > 1), step[2]>>

\* the comment the compiler recorded at a location path of a file, an
\* empty comment if it recorded none
AuthoredAt(fd, path) ==
    LET locs == {l \in fd.source_code_info : l.path = path}
    IN IF locs = {} THEN [Leading |-> <<>>]
       ELSE [Leading |-> (CHOOSE l \in locs : TRUE).leading_comments]

C6_CommentAtPath ==
    \A name \in DOMAIN allFilesMap :
        \A e \in Entities(allFilesMap[name]) :
            e.Comments = AuthoredAt(allFilesMap[name].desc, PathOfPosition(e.ptr.at))

\* entities of all ten shapes have been built with an authored comment
\* (a value of a nested enum among them), and a field without one
C6_Witness ==
    /\ \A k \in Kinds :
        \E e \in AllEntities : e.kind = k /\ e.Comments.Leading # <<>>
    /\ \A k \in {"message", "enum", "extension"} :
        \E e \in AllEntities :
            e.kind = k /\ e.owner # Nil /\ e.Comments.Leading # <<>>
    /\ \E e \in AllEntities :
        e.kind = "value" /\ Len(e.ptr.at) >= 3 /\ e.Comments.Leading # <<>>
    /\ \E e \in AllEntities : e.kind = "field" /\ e.Comments.Leading = <<>>

(***************************************************************************)
(* C7: an extension's LongName is collapsed to the innermost segment of    *)
(* the extendee + "." + name if and only if the extended message is in the *)
(* package of the declaring file.                                          *)
(***************************************************************************)
\* the LongName is the last segment of the extendee + "." + name
Collapsed(e) ==
    LET parts == Split(e.desc.extendee, ".")
    IN e.common.LongName = parts[Len(parts)] \o "." \o e.name

C7_CollapsedIffSamePackage ==
    \A e \in AllEntities :
        e.kind = "extension" =>
            (Collapsed(e) <=> PackageOf(e) \in ExtendeePackages(e))

(***************************************************************************)
(* C8: after the batch driver returns, the input and the output type of    *)
(* every method is the message whose FullName is the declared type name,   *)
(* whenever a message of that name exists anywhere in the batch (top-level *)
(* in the declaring file, nested, or in another file); it is unresolved    *)
(* only when no file defines the name.                                     *)
(***************************************************************************)
\* every method of the batch, as built
AllMethods ==
    UNION {UNION {Range(sv.Methods) : sv \in Range(allFilesMap[name].Services)} :
                name \in DOMAIN allFilesMap}

\* a resolved type is the message of that full name if the batch has one
ResolvedTo(resolved, typeName) ==
    LET defs == {e \in AllEntities :
                    e.kind = "message" /\ e.common.FullName = typeName}
    IN IF defs = {} THEN resolved = Nil ELSE resolved \in {e.ptr : e \in defs}

C8_MethodTypesResolved ==
    Returned =>
        \A m \in AllMethods :
            /\ ResolvedTo(m.InputType, m.desc.input_type)
            /\ ResolvedTo(m.OutputType, m.desc.output_type)

(***************************************************************************)
(* C9: for every file F and every file D of F's dependency list, F's       *)
(* import list has an entry for every message of D, top-level and nested   *)
(* at any depth, that is no map entry, for every enum of D and for every   *)
(* extension of D.                                                         *)
(***************************************************************************)
\* the import list of f has an entry made of the common facet of e
Imports(f, e) == \E imp \in Range(f.Imports) : imp.common = e.common

C9_ImportsEveryMessage ==
    Returned =>
        \A name \in DOMAIN allFilesMap :
            \A dep \in Range(allFilesMap[name].desc.dependency) :
                LET F == allFilesMap[name]
                    D == allFilesMap[dep]
                IN /\ \A m \in MessagesIn(D.Messages) :
                        ~GetMapEntry(m.desc.options) => Imports(F, m)
                   /\ \A e \in Range(D.Enums) : Imports(F, e)
                   /\ \A x \in Range(D.Extensions) : Imports(F, x)

(***************************************************************************)
(* C10: no entry of a file's import list refers to a message flagged as a  *)
(* map entry; a file that depends on a file defining enum Color, flagged   *)
(* message MapEntry and message Point imports Color and Point and does     *)
(* not import MapEntry.                                                    *)
(***************************************************************************)
\* the messages flagged as map entries, in any file and at any depth
MapEntries ==
    UNION {{m \in MessagesIn(allFilesMap[name].Messages) :
                GetMapEntry(m.desc.options)} : name \in DOMAIN allFilesMap}

\* the files whose import list has been resolved
Linked == {p.file : p \in Range(allFiles)}

C10_NoMapEntryImported ==
    \A name \in Linked :
        LET F == allFilesMap[name]
        IN /\ \A imp \in Range(F.Imports) :
                \A m \in MapEntries : imp.common # m.common
           /\ "y.proto" \in Range(F.desc.dependency) =>
                /\ \E imp \in Range(F.Imports) : imp.common.LongName = "Color"
                /\ \E imp \in Range(F.Imports) : imp.common.LongName = "Point"
                /\ \A imp \in Range(F.Imports) : imp.common.LongName # "MapEntry"

\* the driver has returned, and a file with a non-empty import list
\* depends on a file that declares a message flagged as a map entry
C10_Witness ==
    /\ Returned
    /\ \E name \in Linked :
        /\ Len(allFilesMap[name].Imports) > 0
        /\ \E dep \in Range(allFilesMap[name].desc.dependency) :
            \E m \in MapEntries : m.common.file = FilePtr(dep)

(***************************************************************************)
(* C11: a file's import list follows the file's declared dependency order  *)
(* and, within one dependency, the dependency's declaration order; it has  *)
(* entries only for entities of direct dependencies, never for entities of *)
(* the file itself or of a file reached only transitively, and every       *)
(* entity of an earlier dependency precedes every entity of a later one.   *)
(***************************************************************************)
\* the entities an import entry aliases: those whose common facet it holds
Origins(imp) ==
    {e \in AllEntities :
        e.kind \in {"message", "enum", "extension"} /\ e.common = imp.common}

\* the places of a file name in the declared dependencies of a file
DependencyIndex(f, fileName) ==
    {k \in 1..Len(f.desc.dependency) : f.desc.dependency[k] = fileName}

\* the index of an entity among its siblings
SiblingIndex(e) == e.ptr.at[Len(e.ptr.at)][2]

C11_ImportOrder ==
    \A name \in Linked :
        LET F == allFilesMap[name]
            imps == F.Imports
        IN /\ \A i \in 1..Len(imps) :
                /\ Cardinality(Origins(imps[i])) = 1
                /\ \A e \in Origins(imps[i]) :
                    /\ e.common.file.file # name
                    /\ DependencyIndex(F, e.common.file.file) # {}
           /\ \A i \in 1..Len(imps), j \in 1..Len(imps) :
                i < j =>
                    \A a \in Origins(imps[i]), b \in Origins(imps[j]) :
                        /\ \A ka \in DependencyIndex(F, a.common.file.file),
                              kb \in DependencyIndex(F, b.common.file.file) :
                                ka <= kb
                        /\ (a.common.file = b.common.file /\ a.kind = b.kind) =>
                                SiblingIndex(a) < SiblingIndex(b)

\* a file with two dependencies has imported entities of both, two of one
\* kind from one of them
C11_Witness ==
    \E name \in Linked :
        LET F == allFilesMap[name]
            imps == F.Imports
        IN /\ Len(F.desc.dependency) = 2
           /\ \A k \in 1..2 :
                \E i \in 1..Len(imps) :
                    imps[i].common.file.file = F.desc.dependency[k]
           /\ \E i \in 1..Len(imps), j \in 1..Len(imps) :
                /\ i < j
                /\ \E a \in Origins(imps[i]), b \in Origins(imps[j]) :
                    a.common.file = b.common.file /\ a.kind = b.kind

(***************************************************************************)
(* C12: for any order of the files inside the request, the list the batch  *)
(* driver returns holds every file of the batch exactly once, in strictly  *)
(* ascending order of file name; the sequence of names is thus a function  *)
(* of the set of files alone, the same for every order of the request.     *)
(***************************************************************************)
\* the file names of the request, in request order
RequestNames == [n \in 1..Len(req.proto_file) |-> req.proto_file[n].name]

\* the file names of the returned list, in order
ResultNames == [n \in 1..Len(result.files) |-> result.files[n].file]

C12_SortedResult ==
    Returned =>
        /\ Len(ResultNames) = Len(RequestNames)
        /\ Range(ResultNames) = Range(RequestNames)
        /\ \A i \in 1..Len(ResultNames), j \in 1..Len(ResultNames) :
                i < j => StrLess(ResultNames[i], ResultNames[j])

\* the driver has returned the files of a request that names three of them
\* out of ascending order
C12_Witness ==
    /\ Returned
    /\ Len(RequestNames) >= 3
    /\ \E i \in 1..Len(RequestNames), j \in 1..Len(RequestNames) :
        i < j /\ StrLess(RequestNames[j], RequestNames[i])

(***************************************************************************)
(* C13: after the batch driver returns, a file's generation-target flag is *)
(* set if and only if the file's name is in the request's list of files to *)
(* generate, all names of that list being files of the batch.              *)
(***************************************************************************)
C13_GenerateFlag ==
    (Returned /\ Range(req.file_to_generate) \subseteq Range(RequestNames)) =>
        \A n \in 1..Len(result.files) :
            LET name == result.files[n].file
            IN allFilesMap[name].IsFileToGenerate
                <=> name \in Range(req.file_to_generate)

\* the driver has returned a batch of which one file is to be generated
\* and another is not
C13_Witness ==
    /\ Returned
    /\ \E name \in DOMAIN allFilesMap :
        name \in Range(req.file_to_generate) /\ allFilesMap[name].IsFileToGenerate
    /\ \E name \in DOMAIN allFilesMap :
        name \notin Range(req.file_to_generate) /\ ~allFilesMap[name].IsFileToGenerate

(***************************************************************************)
(* C14: after the batch driver returns, for any order of the files inside  *)
(* the request, every file's dependency list has one entry per declared    *)
(* dependency name, in declared order, each the assembled file of that     *)
(* name and never an empty reference; its public-dependency list holds,    *)
(* for each declared public-dependency index k, the assembled file of its  *)
(* k-th declared dependency.                                               *)
(***************************************************************************)
C14_DependenciesResolved ==
    Returned =>
        \A name \in DOMAIN allFilesMap :
            LET F == allFilesMap[name]
                deps == F.desc.dependency
                pubs == F.desc.public_dependency
            IN /\ Len(F.Dependencies) = Len(deps)
               /\ \A k \in 1..Len(deps) :
                    /\ F.Dependencies[k] # Nil
                    /\ F.Dependencies[k] = FilePtr(deps[k])
               /\ Len(F.PublicDependencies) = Len(pubs)
               /\ \A k \in 1..Len(pubs) :
                    F.PublicDependencies[k] = FilePtr(deps[pubs[k] + 1])

(***************************************************************************)
(* C15: when the re-decode of the request fails, the batch driver returns  *)
(* an error and no file list at all, and no file tree has been built.      *)
(***************************************************************************)
\* the driver has returned an error
Failed == pc = "done" /\ result # Nil /\ result.err # Nil

C15_DecodeFailure ==
    Failed =>
        /\ result.files = Nil
        /\ allFilesMap = <<>>
        /\ allFiles = <<>>

\* the re-decode of a request that holds files has failed, after the
\* extensions of the batch were registered
C15_Witness ==
    /\ Failed
    /\ result.err = [error |-> "unmarshal"]
    /\ Len(req.proto_file) >= 2
    /\ registry # {}

(***************************************************************************)
(* C16: registering an extension whose full name is in the global registry *)
(* already is fatal: a run of the driver against a registry that holds a   *)
(* top-level extension of its batch from an earlier run aborts during      *)
(* registration, returns no result and does not skip the duplicate.        *)
(***************************************************************************)
\* the batch declares a top-level extension whose full name is registered
Duplicate ==
    \E xt \in BatchExtensions(allFileDesc) :
        xt.FullName \in {r.FullName : r \in registry}

C16_DuplicateFatal ==
    [][(pc = "register" /\ Duplicate) =>
            (pc' = "fatal" /\ registry' = registry /\ result' = Nil)]_vars

\* a later run has been aborted in the registration step: the registry
\* holds an extension of its batch, put there by an earlier run
C16_Witness ==
    /\ pc = "fatal"
    /\ allFileDesc # <<>>
    /\ Duplicate
    /\ result = Nil

(***************************************************************************)
(* C17: if some file of the batch declares a dependency name that is the   *)
(* name of no file of the batch, the batch driver aborts fatally and       *)
(* returns no result: it never gets to build or return a file list whose   *)
(* dependency pointer for that name would be missing.                      *)
(***************************************************************************)
\* some file of the request imports a file the request does not hold
MissingDependency ==
    \E pf \in Range(req.proto_file) :
        \E dep \in Range(pf.dependency) : dep \notin Range(RequestNames)

C17_MissingDependencyFatal ==
    MissingDependency =>
        /\ pc \in {"start", "fatal"}
        /\ result = Nil
        /\ allFilesMap = <<>>

\* the driver has aborted on a request in which a file imports a file that
\* is not there, nothing else being wrong with the request
C17_Witness ==
    /\ pc = "fatal"
    /\ MissingDependency
    /\ DescriptorsResolveUnresolvable(req)
    /\ \A pf \in Range(req.proto_file) :
        \A ref \in TypeReferences(pf) :
            TrimDot(ref) \in Range(MessageNames(pf.package, pf.message_type))
    /\ result = Nil

(***************************************************************************)
(* C18: for any registry content and any options payload, the scanner's    *)
(* result has a key K exactly when the registry holds an extension of full *)
(* name K whose container type is the payload's type and which is set on   *)
(* the payload; when there is none the result is nil, not an empty map,    *)
(* and the entity's option mapping is left as it was; scanning the same    *)
(* payload again against the unchanged registry gives the same mapping.    *)
(***************************************************************************)
\* the registry holds an extension of this full name, of the container
\* type of the payload, and the payload has it set
Discovered(options, K) ==
    \E xt \in registry :
        /\ xt.FullName = K
        /\ xt.ContainingMessage = options.type
        /\ K \in DOMAIN options.ext

\* the keys of a mapping; a nil map has none
Keys(m) == IF m = Nil THEN {} ELSE DOMAIN m

C18_Scanner ==
    call # Nil =>
        LET names == {xt.FullName : xt \in ScanTypes}
        IN /\ \A K \in names :
                K \in Keys(call.ret) <=> Discovered(call.options, K)
           /\ \A K \in Keys(call.ret) : call.ret[K] = call.options.ext[K]
           /\ (\A K \in names : ~Discovered(call.options, K)) =>
                /\ call.ret = Nil
                /\ call.after = call.before
           /\ \A K \in Keys(call.after) :
                \/ K \in Keys(call.ret) /\ call.after[K] = call.ret[K]
                \/ K \in Keys(call.before) \ Keys(call.ret)
                    /\ call.after[K] = call.before[K]
           /\ Keys(call.after) = Keys(call.before) \cup Keys(call.ret)
           /\ call.again = call.after

\* a payload with a registered and an unregistered extension set has been
\* scanned into a mapping that held an older value
C18_Witness ==
    /\ call # Nil
    /\ Keys(call.before) # {}
    /\ Keys(call.ret) # {}
    /\ Keys(call.ret) # DOMAIN call.options.ext
    /\ \E K \in Keys(call.before) \cap Keys(call.ret) : call.before[K] # call.ret[K]
    /\ \E xt \in registry : xt.ContainingMessage # call.options.type

(***************************************************************************)
(* C19: for every message, enum, service, field and method e, the lookup   *)
(* by name of e's container (file GetEnum / GetMessage / GetService,       *)
(* message GetEnum / GetMessage / GetMessageField, service GetNamedMethod) *)
(* called with e's own LongName returns e itself and no other sibling.     *)
(***************************************************************************)
\* the message, and the service, a pointer points to
RawMessage(ptr) == Deref(ptr)
RawService(ptr) == Deref(ptr)

\* the lookup by name of the container of e
LookupInContainer(e, name) ==
    LET f == allFilesMap[e.common.file.file]
    IN CASE e.kind = "message" ->
                IF e.owner = Nil THEN FileGetMessage(f, name)
                ELSE MessageGetMessage(RawMessage(e.owner), name)
         [] e.kind = "enum" ->
                IF e.owner = Nil THEN FileGetEnum(f, name)
                ELSE MessageGetEnum(RawMessage(e.owner), name)
         [] e.kind = "service" -> FileGetService(f, name)
         [] e.kind = "field" -> MessageGetMessageField(RawMessage(e.owner), name)
         [] e.kind = "method" -> GetNamedMethod(RawService(e.owner), name)

\* the entities that have a lookup by name in their container
LookedUp ==
    {e \in AllEntities :
        e.kind \in {"message", "enum", "service", "field", "method"}}

C19_LookupByLongName ==
    \A e \in LookedUp : PtrOf(LookupInContainer(e, e.common.LongName)) = e.ptr

\* entities of the five kinds exist, among them a message two deep and a
\* field that are not the first of their siblings
C19_Witness ==
    /\ \A k \in {"message", "enum", "service", "field", "method"} :
        \E e \in LookedUp : e.kind = k
    /\ \E e \in LookedUp :
        e.kind = "message" /\ Len(e.ptr.at) >= 3 /\ SiblingIndex(e) >= 1
    /\ \E e \in LookedUp : e.kind = "enum" /\ e.owner # Nil
    /\ \E e \in LookedUp : e.kind = "field" /\ SiblingIndex(e) >= 1

(***************************************************************************)
(* C20: for every message, enum, service, field and method e, the lookup   *)
(* by name of e's container called with e's own FullName returns e itself. *)
(***************************************************************************)
C20_LookupByFullName ==
    \A e \in LookedUp : PtrOf(LookupInContainer(e, e.common.FullName)) = e.ptr

(***************************************************************************)
(* C21: in every run of the batch driver the phases come in the order      *)
(* Registering, Building, Linking, Marking, Done: no file's tree is built  *)
(* before the registration of all extensions and the re-decode are over;   *)
(* no dependency pointer, public-dependency pointer, method input or       *)
(* output type or import list is resolved before the trees of all files    *)
(* of the batch are built; no generation-target flag is set before linking *)
(* has finished; and the result is sorted only after marking.              *)
(***************************************************************************)
\* the trees of all files of the request have been built
AllBuilt == DOMAIN allFilesMap = Range(RequestNames)

\* building starts only after registration and re-decode
BuiltAfterRegistering ==
    allFilesMap # <<>> =>
        /\ pc \notin {"start", "register", "redecode"}
        /\ BatchExtensions(allFileDesc) \subseteq registry

\* no file has a dependency or public-dependency pointer yet
NoDependencyResolved ==
    \A name \in DOMAIN allFilesMap :
        /\ \A k \in 1..Len(allFilesMap[name].Dependencies) :
                allFilesMap[name].Dependencies[k] = Nil
        /\ \A k \in 1..Len(allFilesMap[name].PublicDependencies) :
                allFilesMap[name].PublicDependencies[k] = Nil

\* no method has an input or output type yet
NoMethodTypeResolved ==
    \A m \in AllMethods : m.InputType = Nil /\ m.OutputType = Nil

\* no file has an import list yet
NoImportResolved ==
    \A name \in DOMAIN allFilesMap : Len(allFilesMap[name].Imports) = 0

\* a flag is set only once every file is linked
MarkedAfterLinking ==
    (\E name \in DOMAIN allFilesMap : allFilesMap[name].IsFileToGenerate) =>
        /\ pc \in {"sort", "return", "done"}
        /\ AllBuilt
        /\ Linked = DOMAIN allFilesMap

\* the list is sorted, and returned, only once the files are marked
SortedAfterMarking ==
    (pc \in {"return", "done"} /\ allFilesMap # <<>>) =>
        /\ \A name \in Range(req.file_to_generate) :
                allFilesMap[name].IsFileToGenerate
        /\ allFiles = SortByName(allFiles)

C21_PhaseOrder ==
    /\ BuiltAfterRegistering
    /\ ~AllBuilt =>
        /\ NoDependencyResolved
        /\ NoMethodTypeResolved
        /\ NoImportResolved
    /\ MarkedAfterLinking
    /\ SortedAfterMarking

(***************************************************************************)
(* C22: if the package string of the file occurs anywhere as a substring   *)
(* of extendee + "." + name, the extension's LongName is the last          *)
(* dot-separated segment of the extendee + "." + name; otherwise it is     *)
(* extendee + "." + name unchanged; the same for top-level and nested      *)
(* extensions; extension ext of package a.b extending a.b.Base gets        *)
(* LongName "Base.ext".                                                    *)
(***************************************************************************)
\* t occurs in s as a substring; the empty string occurs in every string
OccursIn(t, s) ==
    \E i \in 1..(Len(s) + 1) :
        i + Len(t) - 1 <= Len(s) /\ SubSeq(s, i, i + Len(t) - 1) = t

\* what follows the last dot of s, s itself when it has no dot
AfterLastDot(s) ==
    LET dots == {i \in 1..Len(s) : SubSeq(s, i, i) = "."}
    IN IF dots = {} THEN s
       ELSE SubSeq(s, (CHOOSE i \in dots : \A j \in dots : j <= i) + 1, Len(s))

C22_SubstringRule ==
    \A e \in AllEntities :
        e.kind = "extension" =>
            LET naive == e.desc.extendee \o "." \o e.name
            IN /\ e.common.LongName =
                    IF OccursIn(PackageOf(e), naive)
                    THEN AfterLastDot(e.desc.extendee) \o "." \o e.name
                    ELSE naive
               /\ (PackageOf(e) = "a.b" /\ e.desc.extendee = ".a.b.Base"
                        /\ e.name = "ext") => e.common.LongName = "Base.ext"

\* a top-level and a nested extension have been built whose long name was
\* cut down, and an extension of a message of another package whose long
\* name was left as it was
C22_Witness ==
    /\ \E e \in AllEntities :
        /\ e.kind = "extension" /\ e.owner = Nil
        /\ OccursIn(PackageOf(e), e.desc.extendee \o "." \o e.name)
        /\ e.common.LongName = AfterLastDot(e.desc.extendee) \o "." \o e.name
    /\ \E e \in AllEntities :
        /\ e.kind = "extension" /\ e.owner # Nil
        /\ OccursIn(PackageOf(e), e.desc.extendee \o "." \o e.name)
        /\ e.common.LongName = AfterLastDot(e.desc.extendee) \o "." \o e.name
    /\ \E e \in AllEntities :
        /\ e.kind = "extension"
        /\ ~OccursIn(PackageOf(e), e.desc.extendee \o "." \o e.name)
        /\ HasPrefix(e.common.LongName, ".")

(***************************************************************************)
(* C23: in every assembled tree the back-references agree with ownership:  *)
(* every message, enum and extension of a message's child lists has that   *)
(* message as Parent; every top-level message, enum and extension has no   *)
(* Parent; every field's Message, enum value's Enum and method's Service   *)
(* is the entity whose child list holds it; every entity's owning file is  *)
(* the file whose tree contains it; and each child list has the length and *)
(* the order of the declarations it was built from.                        *)
(***************************************************************************)
\* a child list has one entity per declaration, in the order declared
BuiltFrom(list, protos) ==
    /\ Len(list) = Len(protos)
    /\ \A n \in 1..Len(list) : list[n].desc = protos[n]

\* an entity stands at a place of the tree of a file and belongs to it
StandsAt(e, fileName, at) ==
    /\ e.ptr = EntityPtr(fileName, at)
    /\ e.common.file = FilePtr(fileName)

\* the enums of a list held at a place by a parent (Nil for the file)
EnumsAgree(fileName, enums, at, parent) ==
    \A n \in 1..Len(enums) :
        LET e == enums[n]
            here == Below(at, "enum_type", n - 1)
        IN /\ StandsAt(e, fileName, here)
           /\ e.Parent = parent
           /\ BuiltFrom(e.Values, e.desc.value)
           /\ \A k \in 1..Len(e.Values) :
                /\ StandsAt(e.Values[k], fileName, Below(here, "value", k - 1))
                /\ e.Values[k].Enum = EntityPtr(fileName, here)

\* the extensions of a list held at a place by a parent (Nil for the file)
ExtensionsAgree(fileName, exts, at, parent) ==
    \A n \in 1..Len(exts) :
        /\ StandsAt(exts[n], fileName, Below(at, "extension", n - 1))
        /\ exts[n].Parent = parent

\* the messages of a list held at a place by a parent (Nil for the file),
\* and everything below them
RECURSIVE MessagesAgree(_, _, _, _)
MessagesAgree(fileName, msgs, at, parent) ==
    \A n \in 1..Len(msgs) :
        LET m == msgs[n]
            here == Below(at, IF parent = Nil THEN "message_type" ELSE "nested_type",
                          n - 1)
            me == EntityPtr(fileName, here)
        IN /\ StandsAt(m, fileName, here)
           /\ m.Parent = parent
           /\ BuiltFrom(m.Messages, m.desc.nested_type)
           /\ BuiltFrom(m.Enums, m.desc.enum_type)
           /\ BuiltFrom(m.Extensions, m.desc.extension)
           /\ BuiltFrom(m.Fields, m.desc.field)
           /\ \A k \in 1..Len(m.Fields) :
                /\ StandsAt(m.Fields[k], fileName, Below(here, "field", k - 1))
                /\ m.Fields[k].Message = me
           /\ EnumsAgree(fileName, m.Enums, here, me)
           /\ ExtensionsAgree(fileName, m.Extensions, here, me)
           /\ MessagesAgree(fileName, m.Messages, here, me)

\* the services of a file and their methods
ServicesAgree(fileName, services) ==
    \A n \in 1..Len(services) :
        LET sv == services[n]
            here == Below(<<>>, "service", n - 1)
        IN /\ StandsAt(sv, fileName, here)
           /\ BuiltFrom(sv.Methods, sv.desc.method)
           /\ \A k \in 1..Len(sv.Methods) :
                /\ StandsAt(sv.Methods[k], fileName, Below(here, "method", k - 1))
                /\ sv.Methods[k].Service = EntityPtr(fileName, here)

C23_BackReferences ==
    \A name \in DOMAIN allFilesMap :
        LET F == allFilesMap[name]
        IN /\ F.desc.name = name
           /\ BuiltFrom(F.Messages, F.desc.message_type)
           /\ BuiltFrom(F.Enums, F.desc.enum_type)
           /\ BuiltFrom(F.Extensions, F.desc.extension)
           /\ BuiltFrom(F.Services, F.desc.service)
           /\ MessagesAgree(name, F.Messages, <<>>, Nil)
           /\ EnumsAgree(name, F.Enums, <<>>, Nil)
           /\ ExtensionsAgree(name, F.Extensions, <<>>, Nil)
           /\ ServicesAgree(name, F.Services)

\* trees have been built that hold a field of a message nested two deep, a
\* value of a nested enum, a nested extension, a method, and top-level
\* messages, enums and extensions
C23_Witness ==
    /\ \E e \in AllEntities : e.kind = "field" /\ Len(e.ptr.at) >= 4
    /\ \E e \in AllEntities : e.kind = "value" /\ Len(e.ptr.at) >= 3
    /\ \E e \in AllEntities : e.kind = "extension" /\ e.owner # Nil
    /\ \E e \in AllEntities : e.kind = "method"
    /\ \A k \in {"message", "enum", "extension"} :
        \E e \in AllEntities : e.kind = k /\ e.owner = Nil

(***************************************************************************)
(* C24: once registration is over, every extension declared in any file of *)
(* the request is in the registry: those declared at file level and those  *)
(* declared inside a message, at any depth.                                *)
(***************************************************************************)
\* the descriptors of the extensions declared inside these messages of a
\* scope, at any depth
RECURSIVE NestedDeclarations(_, _)
NestedDeclarations(scope, msgs) ==
    UNION {LET inner == ProtoFullName(scope, msgs[n].name)
           IN {ExtensionDescriptorOf(inner, msgs[n].extension[k]) :
                    k \in 1..Len(msgs[n].extension)}
                \cup NestedDeclarations(inner, msgs[n].nested_type)
           : n \in 1..Len(msgs)}

\* the descriptors of the extensions declared at the top of a file
FileDeclarations(pf) ==
    {ExtensionDescriptorOf(pf.package, pf.extension[k]) : k \in 1..Len(pf.extension)}

Registered == pc \notin {"start", "register", "fatal"}

C24_EveryExtensionRegistered ==
    Registered =>
        \A n \in 1..Len(req.proto_file) :
            LET pf == req.proto_file[n]
            IN FileDeclarations(pf) \cup NestedDeclarations(pf.package, pf.message_type)
                    \subseteq registry

\* the part of it that the code keeps: the file-level declarations
TopLevelRegistered ==
    Registered =>
        \A n \in 1..Len(req.proto_file) : FileDeclarations(req.proto_file[n]) \subseteq registry

(***************************************************************************)
(* C25: the extension descriptor resolved for every extension entity is    *)
(* that of the very declaration the entity was built from: same name, same *)
(* extendee, same declaring scope.  An extension declared inside a message *)
(* gets neither an empty descriptor nor the descriptor of a top-level      *)
(* extension that shares its local name.                                   *)
(***************************************************************************)
\* the extension entities built inside these messages of a scope, at any
\* depth, each with the descriptor of its own declaration
RECURSIVE NestedResolutions(_, _)
NestedResolutions(scope, msgs) ==
    UNION {LET inner == ProtoFullName(scope, msgs[n].desc.name)
           IN {[entity |-> msgs[n].Extensions[k],
                own |-> ExtensionDescriptorOf(inner, msgs[n].Extensions[k].desc)] :
                    k \in 1..Len(msgs[n].Extensions)}
                \cup NestedResolutions(inner, msgs[n].Messages)
           : n \in 1..Len(msgs)}

\* the extension entities built at the top of a file, likewise
FileResolutions(F) ==
    {[entity |-> F.Extensions[k],
      own |-> ExtensionDescriptorOf(F.desc.package, F.Extensions[k].desc)] :
        k \in 1..Len(F.Extensions)}

C25_OwnExtensionDescriptor ==
    \A name \in DOMAIN allFilesMap :
        LET F == allFilesMap[name]
        IN \A r \in FileResolutions(F) \cup NestedResolutions(F.desc.package, F.Messages) :
                r.entity.ExtensionDescriptor = r.own

\* the part of it that the code keeps: the file-level extensions
TopLevelOwnExtensionDescriptor ==
    \A name \in DOMAIN allFilesMap :
        \A r \in FileResolutions(allFilesMap[name]) : r.entity.ExtensionDescriptor = r.own

\* what the nested ones get: nothing, or the file-level extension of the
\* same local name
NestedBorrowedOrEmpty ==
    \A name \in DOMAIN allFilesMap :
        LET F == allFilesMap[name]
        IN \A r \in NestedResolutions(F.desc.package, F.Messages) :
                \/ r.entity.ExtensionDescriptor = Nil
                \/ /\ r.entity.ExtensionDescriptor \in Range(F.FileDescriptor.Extensions)
                   /\ r.entity.ExtensionDescriptor.Name = r.own.Name
                   /\ r.entity.ExtensionDescriptor # r.own

(***************************************************************************)
(* C26: within one file the comment path is injective over entities: no    *)
(* two distinct entities of the file, of any kind and at any depth, are    *)
(* looked up at the same comment path, and no entity's path is the package *)
(* path "2" or the syntax path "12".                                       *)
(***************************************************************************)
\* the path at which the builder of an entity looked its comment up:
\* messages, enums, extensions and services keep it in common.path;
\* fields, values and methods are looked up under the path of the entity
\* holding them, at their tag and index
LookupPath(e) ==
    LET i == e.ptr.at[Len(e.ptr.at)][2]
    IN CASE e.kind = "field" ->
                SprintfSDD(Deref(e.owner).common.path, messageFieldCommentPath, i)
         [] e.kind = "value" ->
                SprintfSDD(Deref(e.owner).common.path, enumValueCommentPath, i)
         [] e.kind = "method" ->
                SprintfSDD(Deref(e.owner).common.path, serviceMethodCommentPath, i)
         [] OTHER -> e.common.path

C26_CommentPathInjective ==
    \A name \in DOMAIN allFilesMap :
        LET es == Entities(allFilesMap[name])
            paths == {LookupPath(e) : e \in es}
        IN \* as many paths as entities: no path is shared by two of them
           /\ Cardinality(paths) = Cardinality({e.ptr : e \in es})
           /\ paths \cap {"2", "12"} = {}

\* one file's tree holds two sibling messages, a message nested two deep
\* with a field, a nested enum with two values and a nested extension
\* beside a file-level enum and a file-level extension; a file's
\* tree holds a service with two methods
C26_Witness ==
    /\ \E name \in DOMAIN allFilesMap :
        LET es == Entities(allFilesMap[name])
        IN /\ \E e \in es : e.kind = "message" /\ e.ptr.at = <<<<"message_type", 1>>>>
           /\ \E e \in es : e.kind = "field" /\ Len(e.ptr.at) >= 4
           /\ \E e \in es : e.kind = "value" /\ Len(e.ptr.at) = 3
                                /\ e.ptr.at[3][2] = 1
           /\ \E e \in es : e.kind = "extension" /\ e.owner # Nil
           /\ \E e \in es : e.kind = "enum" /\ e.owner = Nil
           /\ \E e \in es : e.kind = "extension" /\ e.owner = Nil
    /\ \E name \in DOMAIN allFilesMap :
        \E e \in Entities(allFilesMap[name]) :
            e.kind = "method" /\ e.ptr.at[2][2] = 1

=============================================================================
